---- MODULE Spec2Model ----
(***************************************************************************)
(* The TrajectoryValidation contract (smartContract.sol): the ledger of    *)
(* admitted trajectories, the submitTrajectory transaction, the collision  *)
(* check, the integer distance, and the three view functions.              *)
(*                                                                         *)
(* A transaction is atomic on chain, so each external function is one      *)
(* action.  A `require` that fails reverts the transaction: no storage     *)
(* write and no event of that call survives.                               *)
(***************************************************************************)
EXTENDS Integers, Sequences, FiniteSets, TLC

(* ------------------------------ constants ------------------------------ *)

COLLISION_DISTANCE == 7

TIME_SLOT == 1

(* ------------------------------- bounds -------------------------------- *)

\* submitTrajectory transactions sent in one behaviour
MaxCalls == 2

\* startTime and endTime range over 0 .. MaxTime
MaxTime == 2

\* submitted paths have 0 .. MaxPathLen coordinates
MaxPathLen == 2

CarIds == {1, 2}

\* Coordinate values (int latitude, int longitude).  (0,0) and (0,-7) are at
\* distance exactly 7, (0,0) and (8,0) at distance 8, (0,-7) and (8,0) at
\* floor(sqrt(113)) = 10.
Coordinates ==
    { [latitude |-> 0, longitude |-> 0],
      [latitude |-> 0, longitude |-> -7],
      [latitude |-> 8, longitude |-> 0] }

Times == 0 .. MaxTime

RECURSIVE SeqsUpTo(_, _)
SeqsUpTo(S, n) ==
    IF n = 0 THEN { <<>> }
    ELSE LET shorter == SeqsUpTo(S, n - 1)
         IN  shorter \cup { Append(p, c) : p \in { q \in shorter : Len(q) = n - 1 }, c \in S }

Paths == SeqsUpTo(Coordinates, MaxPathLen)

(* -------------------------------- state -------------------------------- *)

VARIABLES
    validatedTrajectories,  \* Trajectory[] private validatedTrajectories
    eventLog,               \* the TrajectorySubmitted events emitted so far, in order
    nCalls,                 \* submitTrajectory transactions sent so far
    nAccepted,              \* how many of them returned true
    last,                   \* the last external call: its arguments and its result
    pre,                    \* storage and event log as they were before that call
    state,                  \* useTrajectoryContract: the hook's React state
    contractRef,            \* contractRef.current is a Contract (TRUE) or null (FALSE)
    listener,               \* the 'TrajectorySubmitted' subscription made by setupEventListener
    loads,                  \* the loadTrajectories calls in flight, in the order they started
    submission,             \* the hook's submitTrajectory call in flight, and how many were made
    deliveries,             \* the events handed to the listener so far, as indices of eventLog
    timers,                 \* reloads scheduled by setTimeout(..., 2000) and not yet run
    lastClient              \* what the client did last

contractVars == <<validatedTrajectories, eventLog, nCalls, nAccepted, last, pre>>

clientVars == <<state, contractRef, listener, loads, submission, deliveries, timers, lastClient>>

vars == <<validatedTrajectories, eventLog, nCalls, nAccepted, last, pre,
          state, contractRef, listener, loads, submission, deliveries, timers, lastClient>>

(* -------------------------------- math --------------------------------- *)

\* while (z < y) { y = z; z = (x / z + z) / 2; }
RECURSIVE sqrtLoop(_, _, _)
sqrtLoop(x, y, z) ==
    IF z < y THEN sqrtLoop(x, z, (x \div z + z) \div 2) ELSE y

sqrt(x) ==
    IF x = 0 THEN 0 ELSE sqrtLoop(x, x, (x + 1) \div 2)

distance(a, b) ==
    LET dx == a.latitude - b.latitude
        dy == a.longitude - b.longitude
    IN  sqrt(dx * dx + dy * dy)

(* --------------------------- collision logic --------------------------- *)

\* faulty variant: closed intervals, so that touching endpoints overlap
timeOverlap_Closed(newStart, newEnd, existing) ==
    newStart <= existing.endSlot /\ existing.startSlot <= newEnd

\* faulty variant: || in place of &&
timeOverlap_Either(newStart, newEnd, existing) ==
    newStart < existing.endSlot \/ existing.startSlot < newEnd

timeOverlap(newStart, newEnd, existing) ==
    newStart < existing.endSlot /\ existing.startSlot < newEnd

\* faulty variant: < in place of <=
withinCollisionDistance_Strict(a, b) ==
    distance(a, b) < COLLISION_DISTANCE

withinCollisionDistance(a, b) ==
    distance(a, b) <= COLLISION_DISTANCE

\* faulty variant: every point of the stored path is compared (n++)
RECURSIVE existingLoop_EveryIndex(_, _, _)
existingLoop_EveryIndex(newPoint, existingPath, n) ==
    IF n < Len(existingPath)
    THEN IF withinCollisionDistance(newPoint, existingPath[n + 1])
         THEN TRUE
         ELSE existingLoop_EveryIndex(newPoint, existingPath, n + 1)
    ELSE FALSE

\* for (uint n = 0; n < existing.path.length; n += 2): indices are 0-based in
\* the source, sequences 1-based here, so source index n is element n + 1.
RECURSIVE existingLoop(_, _, _)
existingLoop(newPoint, existingPath, n) ==
    IF n < Len(existingPath)
    THEN IF withinCollisionDistance(newPoint, existingPath[n + 1])
         THEN TRUE
         ELSE existingLoop(newPoint, existingPath, n + 2)
    ELSE FALSE

\* faulty variant: only the first point of the new path is compared
newLoop_FirstPointOnly(newPath, existingPath, m) ==
    m < Len(newPath) /\ existingLoop(newPath[m + 1], existingPath, 0)

\* for (uint m = 0; m < newPath.length; m += 2)
RECURSIVE newLoop(_, _, _)
newLoop(newPath, existingPath, m) ==
    IF m < Len(newPath)
    THEN IF existingLoop(newPath[m + 1], existingPath, 0)
         THEN TRUE
         ELSE newLoop(newPath, existingPath, m + 2)
    ELSE FALSE

\* faulty variant: the scan returns after the first trajectory that overlaps in time
RECURSIVE trajectoryLoop_FirstOverlapOnly(_, _, _, _, _)
trajectoryLoop_FirstOverlapOnly(stored, newStart, newEnd, newPath, i) ==
    IF i < Len(stored)
    THEN IF timeOverlap(newStart, newEnd, stored[i + 1])
         THEN newLoop(newPath, stored[i + 1].path, 0)
         ELSE trajectoryLoop_FirstOverlapOnly(stored, newStart, newEnd, newPath, i + 1)
    ELSE FALSE

\* for (uint i = 0; i < validatedTrajectories.length; i++)
RECURSIVE trajectoryLoop(_, _, _, _, _)
trajectoryLoop(stored, newStart, newEnd, newPath, i) ==
    IF i < Len(stored)
    THEN IF /\ timeOverlap(newStart, newEnd, stored[i + 1])
            /\ newLoop(newPath, stored[i + 1].path, 0)
         THEN TRUE
         ELSE trajectoryLoop(stored, newStart, newEnd, newPath, i + 1)
    ELSE FALSE

isCollision(stored, newStart, newEnd, newPath) ==
    trajectoryLoop(stored, newStart, newEnd, newPath, 0)

(* --------------------------- submitTrajectory -------------------------- *)

toSlot(time) == time \div TIME_SLOT

\* faulty variant: >= in place of >
validWindow_NonStrict(startSlot, endSlot) == endSlot >= startSlot

validWindow(startSlot, endSlot) == endSlot > startSlot

\* faulty variant: the two slots are emitted in the wrong order
TrajectorySubmitted_SwappedSlots(carId, accepted, startSlot, endSlot) ==
    [carId |-> carId, accepted |-> accepted, startSlot |-> endSlot, endSlot |-> startSlot]

TrajectorySubmitted(carId, accepted, startSlot, endSlot) ==
    [carId |-> carId, accepted |-> accepted, startSlot |-> startSlot, endSlot |-> endSlot]

\* A failed require: the transaction reverts, storage is as before, nothing is emitted.
revert(stored, reason) ==
    [status |-> "revert", error |-> reason, ret |-> FALSE,
     storage |-> stored, emits |-> <<>>]

\* faulty variant: the rejecting branch returns without emitting
rejectTrajectory_NoEvent(stored, carId, startSlot, endSlot) ==
    [status |-> "ok", error |-> "", ret |-> FALSE,
     storage |-> stored, emits |-> <<>>]

\* faulty variant: the rejecting branch emits accepted = true
rejectTrajectory_AcceptedFlag(stored, carId, startSlot, endSlot) ==
    [status |-> "ok", error |-> "", ret |-> FALSE,
     storage |-> stored,
     emits |-> << [carId |-> carId, accepted |-> TRUE,
                   startSlot |-> startSlot, endSlot |-> endSlot] >>]

\* if (isCollision(...)) { emit TrajectorySubmitted(carId, false, ...); return false; }
rejectTrajectory(stored, carId, startSlot, endSlot) ==
    [status |-> "ok", error |-> "", ret |-> FALSE,
     storage |-> stored,
     emits |-> << TrajectorySubmitted(carId, FALSE, startSlot, endSlot) >>]

\* faulty variant: returns true and emits without storing anything
storeTrajectory_NoPush(stored, carId, startSlot, endSlot, path) ==
    [status |-> "ok", error |-> "", ret |-> TRUE,
     storage |-> stored,
     emits |-> << [carId |-> carId, accepted |-> TRUE,
                   startSlot |-> startSlot, endSlot |-> endSlot] >>]

\* faulty variant: without the push(), the fields of the last stored trajectory are overwritten
storeTrajectory_Overwrite(stored, carId, startSlot, endSlot, path) ==
    LET t == [carId |-> carId, startSlot |-> startSlot, endSlot |-> endSlot, path |-> path]
    IN  [status |-> "ok", error |-> "", ret |-> TRUE,
         storage |-> IF stored = <<>> THEN <<t>> ELSE [stored EXCEPT ![Len(stored)] = t],
         emits |-> << [carId |-> carId, accepted |-> TRUE,
                       startSlot |-> startSlot, endSlot |-> endSlot] >>]

\* faulty variant: the copy loop stops one coordinate early (i < path.length - 1)
storeTrajectory_DropLastPoint(stored, carId, startSlot, endSlot, path) ==
    [status |-> "ok", error |-> "", ret |-> TRUE,
     storage |-> Append(stored, [carId |-> carId, startSlot |-> startSlot,
                                 endSlot |-> endSlot,
                                 path |-> SubSeq(path, 1, Len(path) - 1)]),
     emits |-> << [carId |-> carId, accepted |-> TRUE,
                   startSlot |-> startSlot, endSlot |-> endSlot] >>]

\* faulty variant: the trajectory is stored and true returned, nothing is emitted
storeTrajectory_NoEvent(stored, carId, startSlot, endSlot, path) ==
    [status |-> "ok", error |-> "", ret |-> TRUE,
     storage |-> Append(stored, [carId |-> carId, startSlot |-> startSlot,
                                 endSlot |-> endSlot, path |-> path]),
     emits |-> <<>>]

\* validatedTrajectories.push(); stored.carId = ...; the loop pushing path[i];
\* emit TrajectorySubmitted(carId, true, ...); return true;
storeTrajectory(stored, carId, startSlot, endSlot, path) ==
    [status |-> "ok", error |-> "", ret |-> TRUE,
     storage |-> Append(stored, [carId |-> carId, startSlot |-> startSlot,
                                 endSlot |-> endSlot, path |-> path]),
     emits |-> << TrajectorySubmitted(carId, TRUE, startSlot, endSlot) >>]

\* faulty variant: the trajectories of the submitting car are left out of the scan
submitTrajectory_OwnCarPasses(stored, carId, startTime, endTime, path) ==
    IF ~(Len(path) > 0)
    THEN revert(stored, "Empty path")
    ELSE IF ~validWindow(toSlot(startTime), toSlot(endTime))
    THEN revert(stored, "Invalid time window")
    ELSE IF isCollision(SelectSeq(stored, LAMBDA t : t.carId # carId),
                        toSlot(startTime), toSlot(endTime), path)
    THEN rejectTrajectory(stored, carId, toSlot(startTime), toSlot(endTime))
    ELSE storeTrajectory(stored, carId, toSlot(startTime), toSlot(endTime), path)

\* faulty variant: the two require checks are missing
submitTrajectory_NoRequire(stored, carId, startTime, endTime, path) ==
    IF isCollision(stored, toSlot(startTime), toSlot(endTime), path)
    THEN rejectTrajectory(stored, carId, toSlot(startTime), toSlot(endTime))
    ELSE storeTrajectory(stored, carId, toSlot(startTime), toSlot(endTime), path)

submitTrajectory(stored, carId, startTime, endTime, path) ==
    IF ~(Len(path) > 0)
    THEN revert(stored, "Empty path")
    ELSE LET startSlot == toSlot(startTime)
             endSlot == toSlot(endTime)
         IN  IF ~validWindow(startSlot, endSlot)
             THEN revert(stored, "Invalid time window")
             ELSE IF isCollision(stored, startSlot, endSlot, path)
                  THEN rejectTrajectory(stored, carId, startSlot, endSlot)
                  ELSE storeTrajectory(stored, carId, startSlot, endSlot, path)

(* ----------------------------- view helpers ---------------------------- *)

getTrajectoryCount(stored) == Len(stored)

\* faulty variant: the bound check rejects the last valid index (index + 1 < length)
getTrajectoryMeta_StrictBound(stored, index) ==
    IF ~(index + 1 < Len(stored))
    THEN [status |-> "revert", error |-> "Index out of bounds"]
    ELSE LET t == stored[index + 1]
         IN  [status |-> "ok", error |-> "",
              carId |-> t.carId, startSlot |-> t.startSlot,
              endSlot |-> t.endSlot, pathLength |-> Len(t.path)]

getTrajectoryMeta(stored, index) ==
    IF ~(index < Len(stored))
    THEN [status |-> "revert", error |-> "Index out of bounds"]
    ELSE LET t == stored[index + 1]
         IN  [status |-> "ok", error |-> "",
              carId |-> t.carId, startSlot |-> t.startSlot,
              endSlot |-> t.endSlot, pathLength |-> Len(t.path)]

getTrajectoryCoordinate(stored, trajIndex, coordIndex) ==
    IF ~(trajIndex < Len(stored))
    THEN [status |-> "revert", error |-> "Invalid trajectory"]
    ELSE LET t == stored[trajIndex + 1]
         IN  IF ~(coordIndex < Len(t.path))
             THEN [status |-> "revert", error |-> "Invalid coordinate"]
             ELSE LET c == t.path[coordIndex + 1]
                  IN  [status |-> "ok", error |-> "",
                       latitude |-> c.latitude, longitude |-> c.longitude]

(* ------------------------------- actions ------------------------------- *)

\* JavaScript's null in the fields error and submitError
null == "null"

Snapshot == [validatedTrajectories |-> validatedTrajectories, eventLog |-> eventLog]

Init ==
    /\ validatedTrajectories = <<>>
    /\ eventLog = <<>>
    /\ nCalls = 0
    /\ nAccepted = 0
    /\ last = [op |-> "none"]
    /\ pre = [validatedTrajectories |-> <<>>, eventLog |-> <<>>]
    /\ state = [trajectories |-> <<>>, isLoading |-> FALSE, error |-> null,
                isSubmitting |-> FALSE, submitError |-> null]
    /\ contractRef = FALSE
    /\ listener = [on |-> FALSE, from |-> 0, called |-> FALSE]
    /\ loads = <<>>
    /\ submission = [pc |-> "idle", calls |-> 0]
    /\ deliveries = <<>>
    /\ timers = 0
    /\ lastClient = [op |-> "none"]

\* One submitTrajectory transaction, from its first require to its return or revert.
SubmitTrajectoryCall ==
    /\ nCalls < MaxCalls
    /\ \E carId \in CarIds, startTime \in Times, endTime \in Times, path \in Paths :
          LET out == submitTrajectory(validatedTrajectories, carId, startTime, endTime, path)
          IN  /\ validatedTrajectories' = out.storage
              /\ eventLog' = eventLog \o out.emits
              /\ nCalls' = nCalls + 1
              /\ nAccepted' = IF out.status = "ok" /\ out.ret THEN nAccepted + 1 ELSE nAccepted
              /\ last' = [op |-> "submitTrajectory", carId |-> carId,
                          startTime |-> startTime, endTime |-> endTime, path |-> path,
                          status |-> out.status, error |-> out.error, ret |-> out.ret]
              /\ pre' = Snapshot
              /\ UNCHANGED clientVars

GetTrajectoryCountCall ==
    /\ last' = [op |-> "getTrajectoryCount", status |-> "ok", error |-> "",
                ret |-> getTrajectoryCount(validatedTrajectories)]
    /\ pre' = Snapshot
    /\ UNCHANGED <<validatedTrajectories, eventLog, nCalls, nAccepted>>
    /\ UNCHANGED clientVars

GetTrajectoryMetaCall ==
    \E index \in 0 .. MaxCalls :
        /\ last' = [op |-> "getTrajectoryMeta", index |-> index,
                    ret |-> getTrajectoryMeta(validatedTrajectories, index)]
        /\ pre' = Snapshot
        /\ UNCHANGED <<validatedTrajectories, eventLog, nCalls, nAccepted>>
        /\ UNCHANGED clientVars

GetTrajectoryCoordinateCall ==
    \E trajIndex \in 0 .. MaxCalls, coordIndex \in 0 .. MaxPathLen :
        /\ last' = [op |-> "getTrajectoryCoordinate",
                    trajIndex |-> trajIndex, coordIndex |-> coordIndex,
                    ret |-> getTrajectoryCoordinate(validatedTrajectories, trajIndex, coordIndex)]
        /\ pre' = Snapshot
        /\ UNCHANGED <<validatedTrajectories, eventLog, nCalls, nAccepted>>
        /\ UNCHANGED clientVars

Next ==
    \/ SubmitTrajectoryCall
    \/ GetTrajectoryCountCall
    \/ GetTrajectoryMetaCall
    \/ GetTrajectoryCoordinateCall

Spec == Init /\ [][Next]_vars

(* ------------- deeper ledgers and longer paths, fewer inputs ------------ *)

\* submitTrajectory transactions sent in one behaviour of SpecScan
ScanMaxCalls == 3

\* paths of SpecScan have 0 .. ScanMaxPathLen coordinates, so that the stride-2
\* loops run more than once (indices 0 and 2)
ScanMaxPathLen == 3

\* (0,0) and (8,0) are at distance 8: a point collides with itself only
ScanCoordinates ==
    { [latitude |-> 0, longitude |-> 0],
      [latitude |-> 8, longitude |-> 0] }

ScanPaths == SeqsUpTo(ScanCoordinates, ScanMaxPathLen)

ScanCarIds == {1}

\* The same transaction as SubmitTrajectoryCall, sent with the arguments of SpecScan.
ScanSubmitTrajectoryCall ==
    /\ nCalls < ScanMaxCalls
    /\ \E carId \in ScanCarIds, startTime \in Times, endTime \in Times, path \in ScanPaths :
          LET out == submitTrajectory(validatedTrajectories, carId, startTime, endTime, path)
          IN  /\ validatedTrajectories' = out.storage
              /\ eventLog' = eventLog \o out.emits
              /\ nCalls' = nCalls + 1
              /\ nAccepted' = IF out.status = "ok" /\ out.ret THEN nAccepted + 1 ELSE nAccepted
              /\ last' = [op |-> "submitTrajectory", carId |-> carId,
                          startTime |-> startTime, endTime |-> endTime, path |-> path,
                          status |-> out.status, error |-> out.error, ret |-> out.ret]
              /\ pre' = Snapshot
              /\ UNCHANGED clientVars

ScanNext == ScanSubmitTrajectoryCall

SpecScan == Init /\ [][ScanNext]_vars

(* ------------------------ vocabulary of the claims --------------------- *)

IsSubmit == last.op = "submitTrajectory"

Completed == IsSubmit /\ last.status = "ok"

Accepted == Completed /\ last.ret

Rejected == Completed /\ ~last.ret

Reverted == IsSubmit /\ last.status = "revert"

newStartSlot == last.startTime \div TIME_SLOT

newEndSlot == last.endTime \div TIME_SLOT

ValidInput == Len(last.path) > 0 /\ newEndSlot > newStartSlot

\* the ledger the last call ran against
before == pre.validatedTrajectories

countBefore == Len(pre.validatedTrajectories)

\* 0-based indices, as in the source
Indices(path) == 0 .. Len(path) - 1

SampledIndices(path) == { n \in Indices(path) : n % 2 = 0 }

SquaredDistance(a, b) ==
    (a.latitude - b.latitude) * (a.latitude - b.latitude)
        + (a.longitude - b.longitude) * (a.longitude - b.longitude)

\* half-open intervals [newStartSlot, newEndSlot) and [t.startSlot, t.endSlot) intersect
Overlaps(t) == newStartSlot < t.endSlot /\ t.startSlot < newEndSlot

\* the intervals share an endpoint only
Touches(t) == newStartSlot = t.endSlot \/ newEndSlot = t.startSlot

LastEvent == eventLog[Len(eventLog)]

(* ------------------------------- claims -------------------------------- *)

\* C1 (as stated): every submitTrajectory call, whatever its outcome, adds
\* exactly one TrajectorySubmitted event to the log.
C1_EveryAttemptEmitsOneEvent ==
    IsSubmit => Len(eventLog) = Len(pre.eventLog) + 1

\* C1 (amended): a submitTrajectory call that passes both require checks adds
\* exactly one event to the log, whether it is accepted or rejected, and keeps
\* the earlier events; a call that reverts adds none.
C1_OneEventPerCompletedCall ==
    IsSubmit =>
        /\ Completed =>
              /\ Len(eventLog) = Len(pre.eventLog) + 1
              /\ SubSeq(eventLog, 1, Len(pre.eventLog)) = pre.eventLog
        /\ Reverted => eventLog = pre.eventLog

C1_Witness ==
    /\ Rejected
    /\ Len(pre.eventLog) = 1
    /\ Len(eventLog) = 2

\* C2: getTrajectoryCount() equals the number of submissions that returned
\* true, never decreases from one call to the next, and is left unchanged by
\* a rejected or reverted submission.
C2_CountIsAcceptedCount ==
    /\ getTrajectoryCount(validatedTrajectories) = nAccepted
    /\ getTrajectoryCount(validatedTrajectories) >= getTrajectoryCount(before)
    /\ (Rejected \/ Reverted) =>
          getTrajectoryCount(validatedTrajectories) = getTrajectoryCount(before)

C2_Witness ==
    /\ Rejected
    /\ nCalls = 2
    /\ nAccepted = 1
    /\ getTrajectoryCount(validatedTrajectories) = 1

\* C3: for every index i below the count before a call, getTrajectoryMeta(i)
\* and getTrajectoryCoordinate(i, j), j < pathLength, return after the call
\* what they returned before it.
C3_StoredNeverChanges ==
    \A i \in 0 .. countBefore - 1 :
        /\ getTrajectoryMeta(validatedTrajectories, i) = getTrajectoryMeta(before, i)
        /\ getTrajectoryMeta(before, i).status = "ok"
        /\ \A j \in 0 .. getTrajectoryMeta(before, i).pathLength - 1 :
              /\ getTrajectoryCoordinate(validatedTrajectories, i, j)
                    = getTrajectoryCoordinate(before, i, j)
              /\ getTrajectoryCoordinate(before, i, j).status = "ok"

C3_Witness ==
    /\ Accepted
    /\ countBefore = 1
    /\ Len(before[1].path) = 2

\* C4: an accepted submission made at count n leaves the count at n + 1 and
\* index n holding the submitted carId, the two slots, the path length and
\* every submitted coordinate in the submitted order.
C4_AcceptedIsStoredAtCount ==
    Accepted =>
        /\ getTrajectoryCount(validatedTrajectories) = countBefore + 1
        /\ getTrajectoryMeta(validatedTrajectories, countBefore)
              = [status |-> "ok", error |-> "", carId |-> last.carId,
                 startSlot |-> last.startTime \div TIME_SLOT,
                 endSlot |-> last.endTime \div TIME_SLOT,
                 pathLength |-> Len(last.path)]
        /\ \A j \in Indices(last.path) :
              getTrajectoryCoordinate(validatedTrajectories, countBefore, j)
                 = [status |-> "ok", error |-> "",
                    latitude |-> last.path[j + 1].latitude,
                    longitude |-> last.path[j + 1].longitude]

C4_Witness ==
    /\ Accepted
    /\ countBefore = 1
    /\ Len(last.path) = 2
    /\ last.path[1] # last.path[2]
    /\ last.carId # before[1].carId

\* the stored trajectories whose interval does not merely touch the new one
RECURSIVE NotTouching(_)
NotTouching(stored) ==
    IF stored = <<>> THEN <<>>
    ELSE IF Touches(Head(stored)) THEN NotTouching(Tail(stored))
         ELSE <<Head(stored)>> \o NotTouching(Tail(stored))

\* C5: a stored trajectory whose slot interval only touches the new one
\* (newStart = its endSlot, or newEnd = its startSlot) never causes a
\* rejection: the decision is the one the ledger without the touching
\* trajectories gives, so a submission touching every stored trajectory is
\* accepted even with a path identical to a stored one.
C5_TouchingNeverRejects ==
    Completed =>
        /\ last.ret = ~isCollision(NotTouching(before), newStartSlot, newEndSlot, last.path)
        /\ (\A i \in 1 .. countBefore : Touches(before[i])) => last.ret

C5_Witness ==
    /\ Accepted
    /\ countBefore = 1
    /\ newStartSlot = before[1].endSlot
    /\ last.path = before[1].path

\* C6: a valid submission that overlaps in time with a stored trajectory and
\* has a sampled (even-index) point at Euclidean distance exactly
\* COLLISION_DISTANCE from a sampled point of that trajectory is rejected.
C6_ThresholdInclusive ==
    (/\ IsSubmit
     /\ ValidInput
     /\ \E i \in 1 .. countBefore :
           /\ Overlaps(before[i])
           /\ \E m \in SampledIndices(last.path), n \in SampledIndices(before[i].path) :
                 SquaredDistance(last.path[m + 1], before[i].path[n + 1])
                    = COLLISION_DISTANCE * COLLISION_DISTANCE)
    => Rejected

\* a rejection in which no sampled pair is closer than COLLISION_DISTANCE
C6_Witness ==
    /\ Rejected
    /\ \E i \in 1 .. countBefore :
          /\ Overlaps(before[i])
          /\ \E m \in SampledIndices(last.path), n \in SampledIndices(before[i].path) :
                SquaredDistance(last.path[m + 1], before[i].path[n + 1])
                   = COLLISION_DISTANCE * COLLISION_DISTANCE
    /\ \A i \in 1 .. countBefore :
          \A m \in SampledIndices(last.path), n \in SampledIndices(before[i].path) :
             SquaredDistance(last.path[m + 1], before[i].path[n + 1])
                >= COLLISION_DISTANCE * COLLISION_DISTANCE

\* C7: a valid submission (non-empty path, endSlot > startSlot) whose interval
\* overlaps no stored trajectory is accepted whatever its coordinates, and is
\* stored at the index equal to the count before the call (index 0 on an
\* empty ledger).
C7_NoOverlapIsAccepted ==
    (/\ IsSubmit
     /\ ValidInput
     /\ \A i \in 1 .. countBefore : ~Overlaps(before[i]))
    => /\ Accepted
       /\ Len(validatedTrajectories) = countBefore + 1
       /\ validatedTrajectories[countBefore + 1].path = last.path

\* identical coordinates, disjoint window, second trajectory of the ledger
C7_Witness ==
    /\ Accepted
    /\ countBefore = 1
    /\ last.path = before[1].path
    /\ Len(last.path) = 2
    /\ ~Overlaps(before[1])

\* the effects of a rejection: count unchanged, ledger unchanged, and the
\* outcome event carrying accepted = false with the call's carId and slots
RejectedWithEvent ==
    /\ Rejected
    /\ validatedTrajectories = before
    /\ Len(eventLog) = Len(pre.eventLog) + 1
    /\ LastEvent = [carId |-> last.carId, accepted |-> FALSE,
                    startSlot |-> newStartSlot, endSlot |-> newEndSlot]

\* C8 (as stated): a valid submission that overlaps in time with a stored
\* trajectory and has ANY point of its path within COLLISION_DISTANCE of a
\* sampled point of that trajectory is rejected.
C8_AnyNearPointRejects ==
    (/\ IsSubmit
     /\ ValidInput
     /\ \E i \in 1 .. countBefore :
           /\ Overlaps(before[i])
           /\ \E m \in Indices(last.path), n \in SampledIndices(before[i].path) :
                 distance(last.path[m + 1], before[i].path[n + 1]) <= COLLISION_DISTANCE)
    => RejectedWithEvent

\* C8 (amended): a valid submission that overlaps in time with a stored
\* trajectory and has a point at an EVEN index of its path within
\* COLLISION_DISTANCE of a sampled point of that trajectory is rejected: the
\* count is unchanged and the event carries accepted = false, the carId and
\* the two slots.
C8_SampledNearPointRejects ==
    (/\ IsSubmit
     /\ ValidInput
     /\ \E i \in 1 .. countBefore :
           /\ Overlaps(before[i])
           /\ \E m \in SampledIndices(last.path), n \in SampledIndices(before[i].path) :
                 distance(last.path[m + 1], before[i].path[n + 1]) <= COLLISION_DISTANCE)
    => RejectedWithEvent

C8_Witness ==
    /\ RejectedWithEvent
    /\ countBefore = 1
    /\ last.carId # before[1].carId
    /\ Len(last.path) = 2
    /\ distance(last.path[1], before[1].path[1]) <= COLLISION_DISTANCE
    /\ distance(last.path[2], before[1].path[1]) > COLLISION_DISTANCE

\* C9: submitTrajectory reverts with "Empty path" when the path is empty
\* (also when the window is invalid too), with "Invalid time window" when the
\* path is non-empty and endSlot <= startSlot, and with nothing else; whether
\* it reverts depends on the arguments alone, not on the ledger; a reverted
\* call leaves the ledger and the event log as they were.
C9_ValidationErrors ==
    IsSubmit =>
        /\ Len(last.path) = 0 =>
              Reverted /\ last.error = "Empty path"
        /\ (Len(last.path) > 0 /\ newEndSlot <= newStartSlot) =>
              Reverted /\ last.error = "Invalid time window"
        /\ ValidInput => Completed
        /\ Reverted =>
              /\ validatedTrajectories = before
              /\ eventLog = pre.eventLog
              /\ \A i \in 0 .. countBefore - 1 :
                    getTrajectoryMeta(validatedTrajectories, i) = getTrajectoryMeta(before, i)

\* both checks fail, on a ledger that holds a trajectory
C9_Witness ==
    /\ Reverted
    /\ last.error = "Empty path"
    /\ newEndSlot <= newStartSlot
    /\ countBefore = 1

C9_WitnessWindow ==
    /\ Reverted
    /\ last.error = "Invalid time window"
    /\ countBefore = 1

\* C10: getTrajectoryMeta(index) fails exactly when index >= count;
\* getTrajectoryCoordinate(trajIndex, coordIndex) fails with "Invalid
\* trajectory" exactly when trajIndex >= count, with "Invalid coordinate"
\* exactly when trajIndex < count and coordIndex >= that path's length, and
\* succeeds otherwise; a read leaves the ledger and the event log unchanged.
C10_ReadErrors ==
    /\ \A index \in 0 .. MaxCalls + 1 :
          getTrajectoryMeta(validatedTrajectories, index).status = "revert"
             <=> index >= getTrajectoryCount(validatedTrajectories)
    /\ \A trajIndex \in 0 .. MaxCalls + 1, coordIndex \in 0 .. MaxPathLen + 1 :
          LET r == getTrajectoryCoordinate(validatedTrajectories, trajIndex, coordIndex)
              count == getTrajectoryCount(validatedTrajectories)
          IN  /\ (r.status = "revert" /\ r.error = "Invalid trajectory")
                    <=> trajIndex >= count
              /\ (r.status = "revert" /\ r.error = "Invalid coordinate")
                    <=> (/\ trajIndex < count
                         /\ coordIndex >= Len(validatedTrajectories[trajIndex + 1].path))
              /\ r.status = "ok"
                    <=> (/\ trajIndex < count
                         /\ coordIndex < Len(validatedTrajectories[trajIndex + 1].path))
    /\ last.op \in {"getTrajectoryCount", "getTrajectoryMeta", "getTrajectoryCoordinate"} =>
          /\ validatedTrajectories = before
          /\ eventLog = pre.eventLog
    /\ last.op = "getTrajectoryMeta" =>
          (last.ret.status = "revert" <=> last.index >= countBefore)
    /\ last.op = "getTrajectoryCoordinate" =>
          (last.ret.status = "ok" <=>
              (/\ last.trajIndex < countBefore
               /\ last.coordIndex < Len(before[last.trajIndex + 1].path)))

C10_Witness ==
    /\ last.op = "getTrajectoryCoordinate"
    /\ last.ret.status = "revert"
    /\ last.ret.error = "Invalid coordinate"
    /\ last.trajIndex = 1
    /\ last.coordIndex = 1
    /\ getTrajectoryCount(validatedTrajectories) = 2

\* C11: the event of a completed call is appended after every earlier event
\* (the log keeps submission order), and carries the call's carId, the value
\* the call returned, and the slots floor(startTime / TIME_SLOT) and
\* floor(endTime / TIME_SLOT); no other call touches the log.
C11_EventsInOrderWithPayload ==
    /\ Completed =>
          eventLog = Append(pre.eventLog,
                            [carId |-> last.carId, accepted |-> last.ret,
                             startSlot |-> last.startTime \div TIME_SLOT,
                             endSlot |-> last.endTime \div TIME_SLOT])
    /\ ~Completed => eventLog = pre.eventLog

\* a rejection logged after an acceptance, for another car and another window
C11_Witness ==
    /\ Rejected
    /\ Len(eventLog) = 2
    /\ eventLog[1].accepted
    /\ ~eventLog[2].accepted
    /\ eventLog[1].carId # eventLog[2].carId
    /\ eventLog[1].endSlot # eventLog[2].endSlot

\* the new path and stored trajectory t have a pair of even-index points
\* within COLLISION_DISTANCE
SampledPairNear(t) ==
    \E m \in SampledIndices(last.path), n \in SampledIndices(t.path) :
        distance(last.path[m + 1], t.path[n + 1]) <= COLLISION_DISTANCE

\* C20: a valid submission is rejected if and only if some stored trajectory
\* overlaps it in time (newStart < endSlot and startSlot < newEnd) and has an
\* even-index point within COLLISION_DISTANCE of an even-index point of the
\* new path; where in the scan that trajectory or that pair stands does not
\* matter.
C20_RejectedIffSampledCollision ==
    Completed =>
        (~last.ret <=>
            \E i \in 1 .. countBefore : Overlaps(before[i]) /\ SampledPairNear(before[i]))

\* a rejection caused by the second stored trajectory alone, and only by its
\* last sampled point (index 2), the first stored trajectory overlapping in
\* time without colliding
C20_Witness ==
    /\ Rejected
    /\ countBefore = 2
    /\ Overlaps(before[1])
    /\ ~SampledPairNear(before[1])
    /\ Overlaps(before[2])
    /\ Len(last.path) = 3
    /\ Len(before[2].path) = 3
    /\ \A m \in SampledIndices(last.path), n \in SampledIndices(before[2].path) :
          distance(last.path[m + 1], before[2].path[n + 1]) <= COLLISION_DISTANCE
              <=> n = 2

(* ------------------ the EVM's 256-bit checked arithmetic ---------------- *)

\* Solidity ^0.8.0 checks every +, - and * of `int` (int256) and `uint`
\* (uint256) and panics on overflow.  The squares of coordinate differences
\* exceed the model checker's own integers, so a magnitude is kept as its
\* digits in base 2^12, least significant first, without leading zeros; the
\* empty sequence is 0.  Carries are found by look-ahead, not by a loop over
\* the digits.
LimbBase == 2 ^ 12

Max(S) == CHOOSE m \in S : \A k \in S : k <= m

wideTrim(a) ==
    LET nonzero == { i \in 1 .. Len(a) : a[i] # 0 }
    IN  IF nonzero = {} THEN <<>> ELSE SubSeq(a, 1, Max(nonzero))

wideFromNat(n) ==
    wideTrim([i \in 1 .. 3 |-> (n \div LimbBase ^ (i - 1)) % LimbBase])

limb(a, i) == IF 1 <= i /\ i <= Len(a) THEN a[i] ELSE 0

wideAdd(a, b) ==
    LET n == Max({Len(a), Len(b)})
        carryInto(i) ==
            \E j \in 1 .. i - 1 :
                /\ limb(a, j) + limb(b, j) >= LimbBase
                /\ \A k \in j + 1 .. i - 1 : limb(a, k) + limb(b, k) = LimbBase - 1
    IN  wideTrim([i \in 1 .. n + 1 |->
                    (limb(a, i) + limb(b, i) + IF carryInto(i) THEN 1 ELSE 0) % LimbBase])

\* a - b for a >= b
wideSub(a, b) ==
    LET borrowInto(i) ==
            \E j \in 1 .. i - 1 :
                /\ limb(a, j) < limb(b, j)
                /\ \A k \in j + 1 .. i - 1 : limb(a, k) = limb(b, k)
    IN  wideTrim([i \in 1 .. Len(a) |->
                    (limb(a, i) - limb(b, i) - IF borrowInto(i) THEN 1 ELSE 0) % LimbBase])

wideLess(a, b) ==
    LET n == Max({Len(a), Len(b)})
    IN  \E i \in 1 .. n :
            /\ limb(a, i) < limb(b, i)
            /\ \A k \in i + 1 .. n : limb(a, k) = limb(b, k)

\* the sum of the products a[i] * b[j] of weight LimbBase ^ (k - 1), for i up to the given one
RECURSIVE columnSum(_, _, _, _)
columnSum(a, b, k, i) ==
    IF i = 0 THEN 0 ELSE a[i] * limb(b, k + 1 - i) + columnSum(a, b, k, i - 1)

wideMul(a, b) ==
    IF a = <<>> \/ b = <<>>
    THEN <<>>
    ELSE LET column == [k \in 1 .. Len(a) + Len(b) - 1 |-> columnSum(a, b, k, Len(a))]
             low == [k \in 1 .. Len(column) |-> column[k] % LimbBase]
             middle == [k \in 1 .. Len(column) |-> (column[k] \div LimbBase) % LimbBase]
             high == [k \in 1 .. Len(column) |-> column[k] \div (LimbBase * LimbBase)]
         IN  wideAdd(wideAdd(wideTrim(low), wideTrim(<<0>> \o middle)),
                     wideTrim(<<0, 0>> \o high))

wideHalf(a) ==
    wideTrim([i \in 1 .. Len(a) |->
                a[i] \div 2 + IF limb(a, i + 1) % 2 = 1 THEN LimbBase \div 2 ELSE 0])

RECURSIVE natBits(_)
natBits(n) == IF n = 0 THEN 0 ELSE 1 + natBits(n \div 2)

\* the number of binary digits of a
wideBits(a) == IF a = <<>> THEN 0 ELSE 12 * (Len(a) - 1) + natBits(a[Len(a)])

\* binary digit i of a, digit 0 being the least significant
wideBit(a, i) == (limb(a, i \div 12 + 1) \div 2 ^ (i % 12)) % 2

\* One step of the long division of s.x by s.z in base 2: the next binary
\* digit of x, from the top, is brought down into the remainder.
divBody(s) ==
    IF s.i = 0
    THEN s
    ELSE LET r == wideAdd(wideAdd(s.r, s.r), wideFromNat(wideBit(s.x, s.i - 1)))
             q == wideAdd(s.q, s.q)
         IN  IF wideLess(r, s.z)
             THEN [s EXCEPT !.i = s.i - 1, !.q = q, !.r = r]
             ELSE [s EXCEPT !.i = s.i - 1, !.q = wideAdd(q, <<1>>), !.r = wideSub(r, s.z)]

\* n steps of divBody, the first half of them before the second
RECURSIVE divRun(_, _)
divRun(s, n) ==
    IF s.i = 0 \/ n = 0 THEN s
    ELSE IF n = 1 THEN divBody(s)
    ELSE divRun(divRun(s, n \div 2), n - n \div 2)

\* x / z, rounded down, for z # 0
wideDiv(x, z) ==
    divRun([x |-> x, z |-> z, i |-> wideBits(x), q |-> <<>>, r |-> <<>>], wideBits(x)).q

abs(n) == IF n < 0 THEN 0 - n ELSE n

panic == [panic |-> TRUE, finished |-> TRUE, value |-> <<>>]

\* runs of the loop body of sqrt() that the model follows: the loop on a value
\* of b binary digits is left after fewer than b \div 2 + 8 runs
MaxSqrtIterations == 64

\* faulty variant: 32-bit signed integers
fitsInt256_Int32(a) == wideBits(a) <= 31

\* a non-negative magnitude a is an int256 when a <= 2^255 - 1
fitsInt256(a) == wideBits(a) <= 255

\* a is a uint256 when a <= 2^256 - 1
fitsUint256(a) == wideBits(a) <= 256

\* faulty variant: the sum is not halved (z = x / z + z)
sqrtBody_NoHalving(s) ==
    IF s.panic \/ ~wideLess(s.z, s.y)
    THEN s
    ELSE IF s.z = <<>>
         THEN [s EXCEPT !.panic = TRUE]
         ELSE [s EXCEPT !.y = s.z, !.z = wideAdd(wideDiv(s.x, s.z), s.z)]

\* One test of `while (z < y)` and, when it holds, one run of the body
\* { y = z; z = (x / z + z) / 2; } with the division and the addition checked.
\* A state that has left the loop, or has panicked, stays as it is.
sqrtBody(s) ==
    IF s.panic \/ ~wideLess(s.z, s.y)
    THEN s
    ELSE IF s.z = <<>>
         THEN [s EXCEPT !.panic = TRUE]
         ELSE LET next(sum) ==
                      IF fitsUint256(sum)
                      THEN [s EXCEPT !.y = s.z, !.z = wideHalf(sum)]
                      ELSE [s EXCEPT !.panic = TRUE]
              IN  next(wideAdd(wideDiv(s.x, s.z), s.z))

\* n runs of sqrtBody, the first half of them before the second
RECURSIVE sqrtRun(_, _)
sqrtRun(s, n) ==
    IF s.panic \/ ~wideLess(s.z, s.y) \/ n = 0 THEN s
    ELSE IF n = 1 THEN sqrtBody(s)
    ELSE sqrtRun(sqrtRun(s, n \div 2), n - n \div 2)

\* sqrt() on uint256.  value is the returned y; finished tells whether the
\* loop was left within MaxSqrtIterations runs of its body.
checkedSqrt(x) ==
    IF x = <<>>
    THEN [panic |-> FALSE, finished |-> TRUE, value |-> <<>>]
    ELSE LET result(s) ==
                 [panic |-> s.panic, finished |-> ~wideLess(s.z, s.y), value |-> s.y]
             start(x1) ==
                 IF ~fitsUint256(x1)
                 THEN panic
                 ELSE result(sqrtRun([x |-> x, y |-> x, z |-> wideHalf(x1), panic |-> FALSE],
                                     MaxSqrtIterations))
         IN  start(wideAdd(x, <<1>>))

\* distance() with int256 arithmetic: dx * dx, dy * dy and their sum are
\* checked.  The differences themselves are formed in the model checker's
\* integers, which hold every difference of two coordinates of WideCoordinates.
checkedDistance(a, b) ==
    LET dx == a.latitude - b.latitude
        dy == a.longitude - b.longitude
        dxdx == wideMul(wideFromNat(abs(dx)), wideFromNat(abs(dx)))
        dydy == wideMul(wideFromNat(abs(dy)), wideFromNat(abs(dy)))
        sum == wideAdd(dxdx, dydy)
    IN  IF fitsInt256(dxdx) /\ fitsInt256(dydy) /\ fitsInt256(sum)
        THEN checkedSqrt(sum)
        ELSE panic

\* distance(a, b) <= COLLISION_DISTANCE in checked arithmetic: "panic" when the
\* arithmetic overflows, "unfinished" when sqrt() is still looping after
\* MaxSqrtIterations runs, otherwise "collision" or "clear"
checkedWithinCollisionDistance(a, b) ==
    LET outcome(d) ==
            IF d.panic THEN "panic"
            ELSE IF ~d.finished THEN "unfinished"
            ELSE IF ~wideLess(wideFromNat(COLLISION_DISTANCE), d.value) THEN "collision"
            ELSE "clear"
    IN  outcome(checkedDistance(a, b))

\* The three loops of isCollision, leaving at the first pair that is not "clear".
RECURSIVE checkedExistingLoop(_, _, _)
checkedExistingLoop(newPoint, existingPath, n) ==
    IF n < Len(existingPath)
    THEN LET after(pair) ==
                 IF pair = "clear"
                 THEN checkedExistingLoop(newPoint, existingPath, n + 2)
                 ELSE pair
         IN  after(checkedWithinCollisionDistance(newPoint, existingPath[n + 1]))
    ELSE "clear"

RECURSIVE checkedNewLoop(_, _, _)
checkedNewLoop(newPath, existingPath, m) ==
    IF m < Len(newPath)
    THEN LET after(inner) ==
                 IF inner = "clear"
                 THEN checkedNewLoop(newPath, existingPath, m + 2)
                 ELSE inner
         IN  after(checkedExistingLoop(newPath[m + 1], existingPath, 0))
    ELSE "clear"

RECURSIVE checkedTrajectoryLoop(_, _, _, _, _)
checkedTrajectoryLoop(stored, newStart, newEnd, newPath, i) ==
    IF i < Len(stored)
    THEN LET after(scan) ==
                 IF scan = "clear"
                 THEN checkedTrajectoryLoop(stored, newStart, newEnd, newPath, i + 1)
                 ELSE scan
         IN  after(IF timeOverlap(newStart, newEnd, stored[i + 1])
                   THEN checkedNewLoop(newPath, stored[i + 1].path, 0)
                   ELSE "clear")
    ELSE "clear"

\* A transaction that does not return: storage is as before, nothing is emitted.
abort(stored, how) ==
    [status |-> how, error |-> "", ret |-> FALSE, storage |-> stored, emits |-> <<>>]

\* submitTrajectory with the arithmetic of distance() and sqrt() checked
checkedSubmitTrajectory(stored, carId, startTime, endTime, path) ==
    IF ~(Len(path) > 0)
    THEN revert(stored, "Empty path")
    ELSE LET startSlot == toSlot(startTime)
             endSlot == toSlot(endTime)
         IN  IF ~validWindow(startSlot, endSlot)
             THEN revert(stored, "Invalid time window")
             ELSE LET after(scan) ==
                          IF scan = "collision"
                          THEN rejectTrajectory(stored, carId, startSlot, endSlot)
                          ELSE IF scan = "clear"
                          THEN storeTrajectory(stored, carId, startSlot, endSlot, path)
                          ELSE abort(stored, scan)
                  IN  after(checkedTrajectoryLoop(stored, startSlot, endSlot, path, 0))

(* --------------- submissions at the edge of the coordinate range -------- *)

\* |latitude|, |longitude| <= 180 degrees in units of 10^-6 degree
CoordinateRange == 180 * 1000000

\* submitTrajectory transactions sent in one behaviour of SpecWide
WideMaxCalls == 2

\* paths of SpecWide have 0 .. WideMaxPathLen coordinates
WideMaxPathLen == 1

\* The corners of the range, where the differences are largest, and next to
\* one corner a point at distance exactly COLLISION_DISTANCE from it.
WideCoordinates ==
    { [latitude |-> lat, longitude |-> lon] :
        lat \in {0 - CoordinateRange, CoordinateRange},
        lon \in {0 - CoordinateRange, CoordinateRange - COLLISION_DISTANCE, CoordinateRange} }

WidePaths == SeqsUpTo(WideCoordinates, WideMaxPathLen)

WideTimes == {0, TIME_SLOT}

WideSubmitTrajectoryCall ==
    /\ nCalls < WideMaxCalls
    /\ \E carId \in ScanCarIds, startTime \in WideTimes, endTime \in WideTimes, path \in WidePaths :
          \E out \in {checkedSubmitTrajectory(validatedTrajectories, carId, startTime, endTime, path)} :
              /\ validatedTrajectories' = out.storage
              /\ eventLog' = eventLog \o out.emits
              /\ nCalls' = nCalls + 1
              /\ nAccepted' = IF out.status = "ok" /\ out.ret THEN nAccepted + 1 ELSE nAccepted
              /\ last' = [op |-> "submitTrajectory", carId |-> carId,
                          startTime |-> startTime, endTime |-> endTime, path |-> path,
                          status |-> out.status, error |-> out.error, ret |-> out.ret]
              /\ pre' = Snapshot
              /\ UNCHANGED clientVars

WideNext == WideSubmitTrajectoryCall

SpecWide == Init /\ [][WideNext]_vars

InRange(c) ==
    /\ abs(c.latitude) <= CoordinateRange
    /\ abs(c.longitude) <= CoordinateRange

AllInRange ==
    /\ \A k \in 1 .. Len(last.path) : InRange(last.path[k])
    /\ \A i \in 1 .. countBefore : \A k \in 1 .. Len(before[i].path) : InRange(before[i].path[k])

\* C19: a submission with a non-empty path, endSlot > startSlot and every
\* coordinate (its own and the stored ones) within +-180 * 10^6 never fails in
\* the arithmetic of distance() and sqrt(): it returns true or false.  The
\* only failures of a submission in range are the two validation errors.
C19_InRangeNeverOverflows ==
    (IsSubmit /\ AllInRange) =>
        /\ last.status \in {"ok", "revert"}
        /\ ValidInput => last.status = "ok" /\ last.ret \in BOOLEAN
        /\ last.status = "revert" =>
              \/ Len(last.path) = 0 /\ last.error = "Empty path"
              \/ ~(newEndSlot > newStartSlot) /\ last.error = "Invalid time window"

\* an accepted submission whose point lies in the corner opposite to a stored
\* point of an overlapping trajectory: both differences are 2 * CoordinateRange
C19_Witness ==
    /\ Accepted
    /\ countBefore = 1
    /\ Overlaps(before[1])
    /\ abs(last.path[1].latitude - before[1].path[1].latitude) = 2 * CoordinateRange
    /\ abs(last.path[1].longitude - before[1].path[1].longitude) = 2 * CoordinateRange

\* a rejection at the edge of the range: the two points are COLLISION_DISTANCE apart
C19_WitnessRejected ==
    /\ Rejected
    /\ last.path[1].longitude = CoordinateRange
    /\ before[1].path[1].longitude = CoordinateRange - COLLISION_DISTANCE

(* ------------- the client: utils/contract.ts and the hook -------------- *)

\* scaleCoordinate: BigInt(Math.round(value * 1e6)).  A value in decimal
\* degrees is given here in tenths of 10^-6 degree, so that there is a
\* fraction to round; Math.round rounds a half upwards.
scaleCoordinate(value) == (value + 5) \div 10

\* formatPathForContract
formatPathForContract(coordinates) ==
    [k \in 1 .. Len(coordinates) |->
        [latitude |-> scaleCoordinate(coordinates[k].latitude),
         longitude |-> scaleCoordinate(coordinates[k].longitude)]]

\* A JavaScript timestamp t is given as thousands and units, t = 1000 *
\* thousands + units with units in 0 .. 999: the timestamps of today are in
\* milliseconds and exceed the model checker's integers.
timeLess(a, b) ==
    \/ a.thousands < b.thousands
    \/ a.thousands = b.thousands /\ a.units < b.units

\* timestampToSeconds: if (timestamp > 1e12) Math.floor(timestamp / 1000),
\* else Math.floor(timestamp)
timestampToSeconds(timestamp) ==
    IF \/ timestamp.thousands > 10 ^ 9
       \/ timestamp.thousands = 10 ^ 9 /\ timestamp.units > 0
    THEN timestamp.thousands
    ELSE 1000 * timestamp.thousands + timestamp.units

\* parseInt(carId, 10) on the texts of CarIdTexts; isNaN tells a NaN from a number
parseInt(text) ==
    CASE text = "1" -> [isNaN |-> FALSE, value |-> 1]
      [] text = "2" -> [isNaN |-> FALSE, value |-> 2]
      [] text = "-1" -> [isNaN |-> FALSE, value |-> 0 - 1]
      [] OTHER -> [isNaN |-> TRUE, value |-> 0]

\* fetchTrajectoryMeta: the four fields of the contract's answer
fetchTrajectoryMeta(result) ==
    [carId |-> result.carId, startSlot |-> result.startSlot,
     endSlot |-> result.endSlot, pathLength |-> result.pathLength]

\* fetchTrajectoryCoordinate
fetchTrajectoryCoordinate(result) ==
    [latitude |-> result.latitude, longitude |-> result.longitude]

\* A loadTrajectories call in flight: fetchAllTrajectories is at `pc`, about to
\* await getTrajectoryCount ("count"), getTrajectoryMeta(i) ("meta") or
\* getTrajectoryCoordinate(i, j) ("coord"); "done" and "failed" are its return
\* and its throw.  awaited tells that the hook's submitTrajectory awaits this
\* call.  lengthAtStart is kept for the properties only: how long the ledger
\* was when loadTrajectories was called.
newLoad(awaited, stored) ==
    [pc |-> "count", count |-> 0, i |-> 0, j |-> 0, pathLength |-> 0,
     trajectories |-> <<>>, meta |-> [carId |-> 0, startSlot |-> 0, endSlot |-> 0, pathLength |-> 0],
     coordinates |-> <<>>, error |-> null,
     awaited |-> awaited, lengthAtStart |-> Len(stored)]

\* faulty variant: the entry is pushed with index i + 1
pushTrajectory_IndexFromOne(task, meta, coordinates) ==
    [task EXCEPT !.trajectories = Append(task.trajectories,
                                         [index |-> task.i + 1, meta |-> meta,
                                          coordinates |-> coordinates]),
                 !.i = task.i + 1,
                 !.pc = IF task.i + 1 < task.count THEN "meta" ELSE "done"]

\* trajectories.push({ index: i, meta, coordinates }); i++; the test i < trajectoryCount
pushTrajectory(task, meta, coordinates) ==
    [task EXCEPT !.trajectories = Append(task.trajectories,
                                         [index |-> task.i, meta |-> meta,
                                          coordinates |-> coordinates]),
                 !.i = task.i + 1,
                 !.pc = IF task.i + 1 < task.count THEN "meta" ELSE "done"]

\* faulty variant: the count is taken one too large
fetchCount_OneMore(stored, task) ==
    [task EXCEPT !.count = getTrajectoryCount(stored) + 1, !.pc = "meta"]

\* const count = await contract.getTrajectoryCount(); and the first test of the loop
fetchCount(stored, task) ==
    LET count == getTrajectoryCount(stored)
    IN  [task EXCEPT !.count = count, !.pc = IF 0 < count THEN "meta" ELSE "done"]

\* const meta = await fetchTrajectoryMeta(contract, i); and the first test of the inner loop
fetchMeta(stored, task) ==
    LET result == getTrajectoryMeta(stored, task.i)
    IN  IF result.status = "revert"
        THEN [task EXCEPT !.pc = "failed", !.error = result.error]
        ELSE LET meta == fetchTrajectoryMeta(result)
             IN  IF 0 < meta.pathLength
                 THEN [task EXCEPT !.meta = meta, !.pathLength = meta.pathLength,
                                   !.j = 0, !.coordinates = <<>>, !.pc = "coord"]
                 ELSE pushTrajectory(task, meta, <<>>)

\* const coord = await fetchTrajectoryCoordinate(contract, i, j); coordinates.push(coord); j++
fetchCoordinate(stored, task) ==
    LET result == getTrajectoryCoordinate(stored, task.i, task.j)
    IN  IF result.status = "revert"
        THEN [task EXCEPT !.pc = "failed", !.error = result.error]
        ELSE LET coordinates == Append(task.coordinates, fetchTrajectoryCoordinate(result))
             IN  IF task.j + 1 < task.pathLength
                 THEN [task EXCEPT !.coordinates = coordinates, !.j = task.j + 1]
                 ELSE pushTrajectory(task, task.meta, coordinates)

\* faulty variant: the fetched entries are added to the ones already shown
settle_Patch(st, task) ==
    IF task.pc = "done"
    THEN [st EXCEPT !.trajectories = st.trajectories \o task.trajectories,
                    !.isLoading = FALSE, !.error = null]
    ELSE [st EXCEPT !.isLoading = FALSE, !.error = task.error]

\* faulty variant: the catch branch installs what was fetched before the failure
settle_InstallPartial(st, task) ==
    IF task.pc = "done"
    THEN [st EXCEPT !.trajectories = task.trajectories, !.isLoading = FALSE, !.error = null]
    ELSE [st EXCEPT !.trajectories = task.trajectories, !.isLoading = FALSE,
                    !.error = task.error]

\* loadTrajectories after its await: setState with the fetched trajectories,
\* or the catch branch
settle(st, task) ==
    IF task.pc = "done"
    THEN [st EXCEPT !.trajectories = task.trajectories, !.isLoading = FALSE, !.error = null]
    ELSE [st EXCEPT !.isLoading = FALSE, !.error = task.error]

\* loadTrajectories up to its await: what it sets and whether a fetch starts
loadTrajectories(st, ref, tasks, awaited, stored) ==
    IF ~ref
    THEN [state |-> [st EXCEPT !.error = "Contract not initialized. Please check the contract address."],
          loads |-> tasks, started |-> FALSE]
    ELSE [state |-> [st EXCEPT !.isLoading = TRUE, !.error = null],
          loads |-> Append(tasks, newLoad(awaited, stored)), started |-> TRUE]

\* faulty variant: the check of the path is missing
submitPrecondition_NoPathCheck(ref, carId, startTime, endTime, path) ==
    IF ~ref THEN "Contract not initialized"
    ELSE IF ~timeLess(startTime, endTime) THEN "Start time must be before end time"
    ELSE IF parseInt(carId).isNaN \/ parseInt(carId).value < 0
         THEN "Car ID must be a valid positive number"
    ELSE null

\* the four early returns of the hook's submitTrajectory; null when it goes on
submitPrecondition(ref, carId, startTime, endTime, path) ==
    IF ~ref THEN "Contract not initialized"
    ELSE IF Len(path) = 0 THEN "Path cannot be empty"
    ELSE IF ~timeLess(startTime, endTime) THEN "Start time must be before end time"
    ELSE IF parseInt(carId).isNaN \/ parseInt(carId).value < 0
         THEN "Car ID must be a valid positive number"
    ELSE null

\* faulty variant: a returned false is taken for a failure
afterTransaction_RejectionIsError(st, out) ==
    IF out.status = "revert" \/ ~out.ret
    THEN [st EXCEPT !.isSubmitting = FALSE, !.submitError = "Failed to submit trajectory"]
    ELSE st

\* the hook after `await contractRef.current.submitTrajectory(...)` and
\* `await tx.wait()`: a revert throws into the catch branch, anything else goes on
afterTransaction(st, out) ==
    IF out.status = "revert"
    THEN [st EXCEPT !.isSubmitting = FALSE, !.submitError = out.error]
    ELSE st

\* faulty variant: the delayed reload is scheduled for every event
onEvent_Always(event, pending) == pending + 1

\* the callback App passes to setupEventListener: if (event.accepted)
\* setTimeout(() => loadTrajectories(), 2000).  The snackbar is left out.
onEvent(event, pending) == IF event.accepted THEN pending + 1 ELSE pending

(* ---------------------- the client and the contract --------------------- *)

\* transactions mined in one behaviour of SpecClient, the hook's and the others'
ClientMaxCalls == 2

\* loadTrajectories calls in flight at one time
MaxLoads == 2

\* events handed to the listener in one behaviour
MaxDeliveries == 2

\* delayed reloads pending at one time
MaxTimers == 1

\* calls of the hook's submitTrajectory in one behaviour
MaxHookCalls == 1

CarIdTexts == {"1", "x"}

\* three instants of September 2001, in milliseconds: two within one second
\* and one in the next second
HookTimestamps ==
    { [thousands |-> 10 ^ 9 + 1, units |-> 0],
      [thousands |-> 10 ^ 9 + 1, units |-> 500],
      [thousands |-> 10 ^ 9 + 2, units |-> 0] }

\* in tenths of 10^-6 degree: (0.4, -0.4) is scaled to (0, 0) and (7.5, 0) to (8, 0)
HookPoint0 == [latitude |-> 4, longitude |-> 0 - 4]

HookPoint8 == [latitude |-> 75, longitude |-> 0]

HookPaths == { <<>>, <<HookPoint0>>, <<HookPoint8, HookPoint0>> }

\* what another account submits: one point at (0, 0) during the same second
OtherSubmissions ==
    { [carId |-> 2, startTime |-> 10 ^ 9 + 1, endTime |-> 10 ^ 9 + 2,
       path |-> << [latitude |-> 0, longitude |-> 0] >>] }

Without(tasks, k) == SubSeq(tasks, 1, k - 1) \o SubSeq(tasks, k + 1, Len(tasks))

\* The effect of useTrajectoryContract that verifies the contract and sets
\* contractRef.current; `verified` is the outcome of the verification.
InitializeContract ==
    /\ ~contractRef
    /\ \E verified \in BOOLEAN :
          /\ contractRef' = verified
          /\ state' = [state EXCEPT !.error = IF verified THEN null
                                               ELSE "Contract verification failed"]
          /\ lastClient' = [op |-> "initializeContract", verified |-> verified]
    /\ UNCHANGED <<contractVars, listener, loads, submission, deliveries, timers>>

\* setupEventListener, called by the effect of App when the address and the
\* signer are present, and again when one of them changes: it returns at once
\* while contractRef.current is null, and subscribes otherwise.  `called`
\* tells that the effect has run.
SetupEventListener ==
    /\ ~listener.on
    /\ listener' = IF contractRef
                   THEN [on |-> TRUE, from |-> Len(eventLog), called |-> TRUE]
                   ELSE [listener EXCEPT !.called = TRUE]
    /\ lastClient' = [op |-> "setupEventListener", subscribed |-> contractRef]
    /\ UNCHANGED <<contractVars, state, contractRef, loads, submission, deliveries, timers>>

\* loadTrajectories called by App: on mount and by the refresh button.
Refresh ==
    /\ Len(loads) < MaxLoads
    /\ LET call == loadTrajectories(state, contractRef, loads, FALSE, validatedTrajectories)
       IN  /\ state' = call.state
           /\ loads' = call.loads
           /\ lastClient' = [op |-> "loadTrajectories", started |-> call.started]
    /\ UNCHANGED <<contractVars, contractRef, listener, submission, deliveries, timers>>

\* What follows the answer to a read: the next await of fetchAllTrajectories,
\* or its return or throw, on which loadTrajectories sets the state and, when
\* the hook's submitTrajectory awaited it, isSubmitting is reset.
Resume(k, task) ==
    /\ IF task.pc \in {"done", "failed"}
       THEN /\ loads' = Without(loads, k)
            /\ state' = IF task.awaited
                        THEN [settle(state, task) EXCEPT !.isSubmitting = FALSE]
                        ELSE settle(state, task)
            /\ submission' = IF task.awaited
                             THEN [pc |-> "idle", calls |-> submission.calls]
                             ELSE submission
            /\ lastClient' = [op |-> "loaded", pc |-> task.pc, awaited |-> task.awaited,
                              count |-> task.count, lengthAtStart |-> task.lengthAtStart,
                              error |-> task.error, shown |-> state.trajectories,
                              fetched |-> Len(task.trajectories),
                              accepted |-> IF task.awaited THEN submission.accepted ELSE FALSE]
       ELSE /\ loads' = [loads EXCEPT ![k] = task]
            /\ lastClient' = [op |-> "fetch"]
            /\ UNCHANGED <<state, submission>>
    /\ UNCHANGED <<contractVars, contractRef, listener, deliveries, timers>>

FetchCount ==
    \E k \in 1 .. Len(loads) :
        /\ loads[k].pc = "count"
        /\ Resume(k, fetchCount(validatedTrajectories, loads[k]))

FetchMeta ==
    \E k \in 1 .. Len(loads) :
        /\ loads[k].pc = "meta"
        /\ Resume(k, fetchMeta(validatedTrajectories, loads[k]))

FetchCoordinate ==
    \E k \in 1 .. Len(loads) :
        /\ loads[k].pc = "coord"
        /\ Resume(k, fetchCoordinate(validatedTrajectories, loads[k]))

\* The hook's submitTrajectory up to its first await.
HookSubmit ==
    /\ submission.pc = "idle"
    /\ submission.calls < MaxHookCalls
    /\ \E carId \in CarIdTexts, startTime \in HookTimestamps, endTime \in HookTimestamps,
          path \in HookPaths :
          LET problem == submitPrecondition(contractRef, carId, startTime, endTime, path)
          IN  /\ problem = null => nCalls < ClientMaxCalls
              /\ IF problem # null
                 THEN /\ state' = [state EXCEPT !.submitError = problem]
                      /\ submission' = [pc |-> "idle", calls |-> submission.calls + 1]
                 ELSE /\ state' = [state EXCEPT !.isSubmitting = TRUE, !.submitError = null]
                      /\ submission' = [pc |-> "transaction", carId |-> parseInt(carId).value,
                                        startTime |-> timestampToSeconds(startTime),
                                        endTime |-> timestampToSeconds(endTime),
                                        path |-> formatPathForContract(path),
                                        accepted |-> FALSE,
                                        calls |-> submission.calls + 1]
              /\ lastClient' = [op |-> "submitTrajectory", problem |-> problem,
                                path |-> path, shown |-> state.trajectories]
    /\ UNCHANGED <<contractVars, contractRef, listener, loads, deliveries, timers>>

\* The transaction of the hook: it is mined, or it reverts and the hook's catch
\* runs.  The hook does not read the outcome; `accepted` is kept for the
\* properties only.
HookTransaction ==
    /\ submission.pc = "transaction"
    /\ LET out == submitTrajectory(validatedTrajectories, submission.carId,
                                   submission.startTime, submission.endTime, submission.path)
       IN  /\ validatedTrajectories' = out.storage
           /\ eventLog' = eventLog \o out.emits
           /\ nCalls' = nCalls + 1
           /\ nAccepted' = IF out.status = "ok" /\ out.ret THEN nAccepted + 1 ELSE nAccepted
           /\ last' = [op |-> "submitTrajectory", carId |-> submission.carId,
                       startTime |-> submission.startTime, endTime |-> submission.endTime,
                       path |-> submission.path,
                       status |-> out.status, error |-> out.error, ret |-> out.ret]
           /\ pre' = Snapshot
           /\ state' = afterTransaction(state, out)
           /\ submission' = IF out.status = "revert"
                            THEN [pc |-> "idle", calls |-> submission.calls]
                            ELSE [submission EXCEPT !.pc = "mined", !.accepted = out.ret]
           /\ lastClient' = [op |-> "transaction", status |-> out.status, ret |-> out.ret]
    /\ UNCHANGED <<contractRef, listener, loads, deliveries, timers>>

\* tx.wait() has returned: await loadTrajectories()
HookReload ==
    /\ submission.pc = "mined"
    /\ Len(loads) < MaxLoads
    /\ LET call == loadTrajectories(state, contractRef, loads, TRUE, validatedTrajectories)
       IN  /\ state' = call.state
           /\ loads' = call.loads
           /\ submission' = [submission EXCEPT !.pc = "reloading"]
           /\ lastClient' = [op |-> "loadTrajectories", started |-> call.started]
    /\ UNCHANGED <<contractVars, contractRef, listener, deliveries, timers>>

\* A transaction of another account.
OtherSubmitTrajectoryCall ==
    /\ nCalls < ClientMaxCalls
    /\ \E t \in OtherSubmissions :
          LET out == submitTrajectory(validatedTrajectories, t.carId, t.startTime, t.endTime, t.path)
          IN  /\ validatedTrajectories' = out.storage
              /\ eventLog' = eventLog \o out.emits
              /\ nCalls' = nCalls + 1
              /\ nAccepted' = IF out.status = "ok" /\ out.ret THEN nAccepted + 1 ELSE nAccepted
              /\ last' = [op |-> "submitTrajectory", carId |-> t.carId,
                          startTime |-> t.startTime, endTime |-> t.endTime, path |-> t.path,
                          status |-> out.status, error |-> out.error, ret |-> out.ret]
              /\ pre' = Snapshot
    /\ lastClient' = [op |-> "otherTransaction"]
    /\ UNCHANGED <<state, contractRef, listener, loads, submission, deliveries, timers>>

\* The listener registered by contract.on runs for event number e of the log:
\* onEvent(trajectoryEvent); loadTrajectories();  An event may be handed over
\* once, again, or never.
DeliverEvent ==
    /\ listener.on
    /\ Len(deliveries) < MaxDeliveries
    /\ Len(loads) < MaxLoads
    /\ \E e \in listener.from + 1 .. Len(eventLog) :
          LET pending == onEvent(eventLog[e], timers)
              call == loadTrajectories(state, contractRef, loads, FALSE, validatedTrajectories)
          IN  /\ pending <= MaxTimers
              /\ timers' = pending
              /\ state' = call.state
              /\ loads' = call.loads
              /\ deliveries' = Append(deliveries, e)
              /\ lastClient' = [op |-> "event", event |-> eventLog[e],
                                scheduled |-> pending - timers,
                                started |-> Len(call.loads) - Len(loads)]
    /\ UNCHANGED <<contractVars, contractRef, listener, submission>>

\* A timeout set by onEvent expires: loadTrajectories()
TimerFires ==
    /\ timers > 0
    /\ Len(loads) < MaxLoads
    /\ LET call == loadTrajectories(state, contractRef, loads, FALSE, validatedTrajectories)
       IN  /\ state' = call.state
           /\ loads' = call.loads
           /\ lastClient' = [op |-> "loadTrajectories", started |-> call.started]
    /\ timers' = timers - 1
    /\ UNCHANGED <<contractVars, contractRef, listener, submission, deliveries>>

ClientNext ==
    \/ InitializeContract
    \/ SetupEventListener
    \/ Refresh
    \/ FetchCount
    \/ FetchMeta
    \/ FetchCoordinate
    \/ HookSubmit
    \/ HookTransaction
    \/ HookReload
    \/ OtherSubmitTrajectoryCall
    \/ DeliverEvent
    \/ TimerFires

SpecClient == Init /\ [][ClientNext]_vars

(* ------------------------- claims on the client ------------------------ *)

\* what fetchAllTrajectories returns when it reads the ledger `stored` undisturbed
Mirror(stored) ==
    [k \in 1 .. Len(stored) |->
        [index |-> k - 1,
         meta |-> [carId |-> stored[k].carId, startSlot |-> stored[k].startSlot,
                   endSlot |-> stored[k].endSlot, pathLength |-> Len(stored[k].path)],
         coordinates |-> [j \in 1 .. Len(stored[k].path) |->
                             [latitude |-> stored[k].path[j].latitude,
                              longitude |-> stored[k].path[j].longitude]]]]

HookMined == lastClient.op = "transaction" /\ lastClient.status = "ok"

HookLoaded == lastClient.op = "loaded" /\ lastClient.awaited

\* C12: a submission of the hook that the contract rejects for a collision
\* completes without a revert and returns false, the ledger is as before, one
\* event with accepted = false is added, and submitError is null when the
\* transaction is mined, for as long as the hook waits for its reload, and when
\* the submission is over.
C12_RejectionIsNotAnError ==
    /\ HookMined /\ ~lastClient.ret =>
          /\ Rejected
          /\ validatedTrajectories = pre.validatedTrajectories
          /\ Len(eventLog) = Len(pre.eventLog) + 1
          /\ ~LastEvent.accepted
          /\ state.submitError = null
    /\ submission.pc \in {"mined", "reloading"} /\ ~submission.accepted =>
          state.submitError = null
    /\ HookLoaded /\ ~lastClient.accepted =>
          state.submitError = null /\ ~state.isSubmitting

C12_Witness ==
    /\ HookLoaded
    /\ ~lastClient.accepted
    /\ lastClient.pc = "done"
    /\ Len(validatedTrajectories) = 1
    /\ Len(eventLog) = 2
    /\ ~eventLog[2].accepted

\* a call of loadTrajectories has just returned; Fetched: with the list it read
Loaded == lastClient.op = "loaded"

Fetched == Loaded /\ lastClient.pc = "done"

\* no trajectory was appended between the call of loadTrajectories and its return
Undisturbed == lastClient.lengthAtStart = Len(validatedTrajectories)

\* C14: a reload during which the ledger did not change ends with the mirror
\* of the whole ledger, count() entries with entry i holding index i, the meta
\* of ledger index i and its coordinates in order, whichever events were
\* handed to the listener, none included.
C14_ReloadReconstructsLedger ==
    Loaded /\ Undisturbed =>
        /\ lastClient.pc = "done"
        /\ Len(state.trajectories) = getTrajectoryCount(validatedTrajectories)
        /\ state.trajectories = Mirror(validatedTrajectories)

\* the observer has missed both events and shows both trajectories
C14_Witness ==
    /\ Fetched /\ Undisturbed
    /\ deliveries = <<>>
    /\ nAccepted = 2
    /\ Len(state.trajectories) = 2
    /\ Len(state.trajectories[1].coordinates) = 2

\* C15: a reload whose reads interleave with submissions never fails with a
\* lookup error, and the mirror it produces is the ledger prefix whose length
\* is the count it read first.
C15_ReloadReadsCommittedPrefix ==
    Loaded =>
        /\ lastClient.pc = "done"
        /\ lastClient.error = null
        /\ lastClient.count <= Len(validatedTrajectories)
        /\ state.trajectories = Mirror(SubSeq(validatedTrajectories, 1, lastClient.count))

\* a trajectory was appended after the count was read: one entry shown, two stored
C15_Witness ==
    /\ Fetched
    /\ lastClient.lengthAtStart = 0
    /\ lastClient.count = 1
    /\ Len(validatedTrajectories) = 2
    /\ Len(state.trajectories) = 1

\* the listener has just run for an event
Delivered == lastClient.op = "event"

\* C16 as stated: an event with accepted = true schedules a delayed reload and
\* an event with accepted = false initiates no reload.
C16_NoReloadOnRejection ==
    Delivered =>
        /\ lastClient.event.accepted => lastClient.scheduled = 1
        /\ ~lastClient.event.accepted => lastClient.scheduled = 0 /\ lastClient.started = 0

\* C16: on every event, accepted or not, the listener starts a reload at once;
\* a delayed reload is scheduled in addition exactly when accepted = true.
C16_ReloadOnEveryEvent ==
    Delivered =>
        /\ lastClient.started = 1
        /\ loads[Len(loads)].pc = "count"
        /\ state.isLoading
        /\ lastClient.scheduled = (IF lastClient.event.accepted THEN 1 ELSE 0)
        /\ lastClient.event.accepted => timers > 0

\* an event with accepted = false has started a reload and scheduled none
C16_Witness ==
    /\ Delivered
    /\ ~lastClient.event.accepted
    /\ lastClient.started = 1
    /\ lastClient.scheduled = 0
    /\ timers = 0

\* an event with accepted = true has started a reload and scheduled another
C16_WitnessAccepted ==
    /\ Delivered
    /\ lastClient.event.accepted
    /\ lastClient.started = 1
    /\ lastClient.scheduled = 1

\* the hook's submitTrajectory has just been called
HookCalled == lastClient.op = "submitTrajectory"

\* C17: the hook never passes an empty path to the contract: called with an
\* empty path it sets submitError and returns, no transaction is sent, the
\* ledger and the mirror are as before; and every transaction the hook has in
\* flight carries a path that is not empty.
C17_EmptyPathNeverSubmitted ==
    /\ HookCalled /\ Len(lastClient.path) = 0 =>
          /\ lastClient.problem # null
          /\ state.submitError = lastClient.problem
          /\ ~state.isSubmitting
          /\ submission.pc = "idle"
          /\ state.trajectories = lastClient.shown
    /\ submission.pc = "transaction" => Len(submission.path) > 0
    /\ HookMined \/ (lastClient.op = "transaction" /\ lastClient.status = "revert") =>
          Len(last.path) > 0

\* the hook was called with an empty path while the contract was ready and one
\* trajectory was stored and shown
C17_Witness ==
    /\ HookCalled
    /\ Len(lastClient.path) = 0
    /\ contractRef
    /\ state.submitError = "Path cannot be empty"
    /\ Len(validatedTrajectories) = 1
    /\ Len(state.trajectories) = 1
    /\ nCalls = 1

\* all reloads have returned and no delayed reload is pending
Quiescent == loads = <<>> /\ timers = 0

\* event e was handed to the listener once, or twice, and no other event was
DeliveredOnce(e) == deliveries = <<e>>

DeliveredTwice(e) == deliveries = <<e, e>>

\* C18: at all times entry k of the mirror has index k (counted from 0) and is
\* the entry of the ledger at that index, so that no index appears twice and
\* the mirror never has more entries than the ledger; and once the reloads
\* started for an event have returned, the last of them having read the
\* ledger as it is, the mirror is the mirror of the ledger, the same whether
\* the event was delivered once or twice.
C18_DuplicateDeliveryIsHarmless ==
    /\ \A k \in 1 .. Len(state.trajectories) : state.trajectories[k].index = k - 1
    /\ Len(state.trajectories) <= Len(validatedTrajectories)
    /\ state.trajectories = Mirror(SubSeq(validatedTrajectories, 1, Len(state.trajectories)))
    /\ \A e \in 1 .. Len(eventLog) :
          (DeliveredOnce(e) \/ DeliveredTwice(e)) /\ Quiescent /\ Loaded /\ Undisturbed =>
              state.trajectories = Mirror(validatedTrajectories)

\* the event of the first accepted submission was delivered twice, every
\* reload has returned, and the mirror shows the one trajectory once
C18_Witness ==
    /\ DeliveredTwice(1)
    /\ eventLog[1].accepted
    /\ Quiescent /\ Fetched /\ Undisturbed
    /\ Len(validatedTrajectories) = 1
    /\ Len(state.trajectories) = 1
    /\ Len(lastClient.shown) = 1

(* ------------------------ claims on the ledger ------------------------- *)

StoredIndices == 1 .. Len(validatedTrajectories)

\* C23: every stored trajectory has endSlot > startSlot and a path of at
\* least one coordinate, whatever was attempted.
C23_StoredAreValid ==
    \A i \in StoredIndices :
        /\ validatedTrajectories[i].endSlot > validatedTrajectories[i].startSlot
        /\ Len(validatedTrajectories[i].path) >= 1

\* an attempt with an empty path or an invalid window was made on a ledger
\* that holds a trajectory
C23_Witness ==
    /\ Reverted
    /\ Len(validatedTrajectories) = 1
    /\ ~ValidInput

\* the sampled points of two paths that are within COLLISION_DISTANCE
NearSampledPairs(p, q) ==
    { <<m, n>> \in SampledIndices(p) \X SampledIndices(q) :
        SquaredDistance(p[m + 1], q[n + 1]) <= COLLISION_DISTANCE * COLLISION_DISTANCE }

\* C24: two stored trajectories whose slot intervals overlap have no pair of
\* even-index points within COLLISION_DISTANCE, and the scan of one path
\* against the other gives the same answer in either order.
C24_StoredPairwiseClear ==
    \A i \in StoredIndices : \A j \in StoredIndices :
        LET a == validatedTrajectories[i]
            b == validatedTrajectories[j]
        IN  /\ newLoop(a.path, b.path, 0) = newLoop(b.path, a.path, 0)
            /\ (i # j /\ a.startSlot < b.endSlot /\ b.startSlot < a.endSlot) =>
                  /\ NearSampledPairs(a.path, b.path) = {}
                  /\ ~newLoop(a.path, b.path, 0)

\* three stored trajectories; the first two overlap in time and meet at an
\* odd index, and the second has a sampled point at index 2
C24_Witness ==
    /\ Len(validatedTrajectories) = 3
    /\ validatedTrajectories[1].startSlot < validatedTrajectories[2].endSlot
    /\ validatedTrajectories[2].startSlot < validatedTrajectories[1].endSlot
    /\ Len(validatedTrajectories[1].path) = 2
    /\ Len(validatedTrajectories[2].path) = 3
    /\ validatedTrajectories[1].path[2] = validatedTrajectories[2].path[2]

acceptedEvents == SelectSeq(eventLog, LAMBDA e : e.accepted)

\* C30: the events with accepted = true are as many as getTrajectoryCount()
\* and, in order, event i carries the carId, startSlot and endSlot that
\* getTrajectoryMeta(i) returns.
C30_AcceptedEventsMatchLedger ==
    /\ Len(acceptedEvents) = getTrajectoryCount(validatedTrajectories)
    /\ \A i \in 0 .. getTrajectoryCount(validatedTrajectories) - 1 :
          LET meta == getTrajectoryMeta(validatedTrajectories, i)
          IN  /\ meta.status = "ok"
              /\ acceptedEvents[i + 1].carId = meta.carId
              /\ acceptedEvents[i + 1].startSlot = meta.startSlot
              /\ acceptedEvents[i + 1].endSlot = meta.endSlot

\* two accepted submissions of different cars and windows
C30_Witness ==
    /\ Len(eventLog) = 2
    /\ Len(validatedTrajectories) = 2
    /\ eventLog[1].carId # eventLog[2].carId
    /\ eventLog[1].startSlot # eventLog[2].startSlot

\* an accepted, a rejected and again an accepted submission
C30_WitnessRejected ==
    /\ Len(eventLog) = 3
    /\ eventLog[1].accepted /\ ~eventLog[2].accepted /\ eventLog[3].accepted
    /\ eventLog[1].endSlot # eventLog[3].endSlot

\* what the last submission would have returned with another path, or
\* against another ledger
Decision(stored, carId, path) ==
    LET out == submitTrajectory(stored, carId, last.startTime, last.endTime, path)
    IN  [status |-> out.status, ret |-> out.ret]

LastDecision == [status |-> last.status, ret |-> last.ret]

\* p and q have the same length and the same points at the even indices
SameAtEven(p, q) ==
    /\ Len(p) = Len(q)
    /\ \A n \in SampledIndices(p) : p[n + 1] = q[n + 1]

\* p and q have the same length and differ at most in their final point
SameButFinal(p, q) ==
    /\ Len(p) = Len(q)
    /\ \A n \in Indices(p) : n < Len(p) - 1 => p[n + 1] = q[n + 1]

\* the points at odd indices of the new path and of the stored paths have no
\* influence on the decision
OddIndicesIgnored ==
    /\ \A p \in ScanPaths :
          SameAtEven(p, last.path) => Decision(before, last.carId, p) = LastDecision
    /\ \A i \in 1 .. countBefore : \A q \in ScanPaths :
          SameAtEven(q, before[i].path) =>
              Decision([before EXCEPT ![i].path = q], last.carId, last.path) = LastDecision

\* the decision is taken on the points at even indices, index 0 and the
\* single point of a path of length 1 included
EvenIndicesDecide ==
    Rejected <=> \E i \in 1 .. countBefore :
                    Overlaps(before[i]) /\ NearSampledPairs(last.path, before[i].path) # {}

\* C21 (as stated): the even indices are sampled, the odd ones have no
\* influence, and a path of odd length skips its final point: replacing the
\* final point of a new path of odd length never changes the decision.
C21_OddLengthSkipsFinalPoint ==
    (IsSubmit /\ ValidInput) =>
        /\ OddIndicesIgnored
        /\ EvenIndicesDecide
        /\ Len(last.path) % 2 = 1 =>
              \A p \in ScanPaths :
                  SameButFinal(p, last.path) => Decision(before, last.carId, p) = LastDecision

\* C21 (amended): the even indices below the length are sampled and the odd
\* ones have no influence; it is a path of even length that skips its final
\* point, the final point of a path of odd length has an even index and is
\* compared.
C21_EvenIndicesSampled ==
    (IsSubmit /\ ValidInput) =>
        /\ OddIndicesIgnored
        /\ EvenIndicesDecide
        /\ Len(last.path) % 2 = 0 =>
              \A p \in ScanPaths :
                  SameButFinal(p, last.path) => Decision(before, last.carId, p) = LastDecision
        /\ Len(last.path) % 2 = 1 => (Len(last.path) - 1) \in SampledIndices(last.path)

\* a path of three points is rejected for its final point alone: with another
\* final point it is accepted
C21_Witness ==
    /\ Rejected
    /\ Len(last.path) = 3
    /\ \E p \in ScanPaths :
          /\ SameButFinal(p, last.path)
          /\ Decision(before, last.carId, p) = [status |-> "ok", ret |-> TRUE]

\* C28: the decision does not depend on the car: with any other carId the
\* last submission gets the same outcome, the carIds of the stored
\* trajectories have no influence, and a car that submits its own stored
\* path again for an overlapping window is rejected.
C28_DecisionIgnoresCarId ==
    IsSubmit =>
        /\ \A c \in CarIds : Decision(before, c, last.path) = LastDecision
        /\ \A i \in 1 .. countBefore : \A c \in CarIds :
              Decision([before EXCEPT ![i].carId = c], last.carId, last.path) = LastDecision
        /\ \A i \in 1 .. countBefore :
              (ValidInput /\ before[i].carId = last.carId /\ before[i].path = last.path
                    /\ Overlaps(before[i])) => Rejected

\* a car has submitted its own stored path again and was rejected
C28_Witness ==
    /\ Rejected
    /\ countBefore = 1
    /\ before[1].carId = last.carId
    /\ before[1].path = last.path
    /\ Len(last.path) = 2

(* ----------------------- sqrt(), one run at a time --------------------- *)

\* sqrt() is run on 0 .. MaxSqrtInput and on the values of SqrtLargeInputs
MaxSqrtInput == 40

\* 2^256 - 1, the largest uint256
MaxUint256 == [i \in 1 .. 22 |-> IF i = 22 THEN 15 ELSE LimbBase - 1]

\* the largest argument distance() passes for coordinates within
\* +-CoordinateRange, 2 * (2 * CoordinateRange)^2; 2^256 - 2; and 2^256 - 1
SqrtLargeInputs ==
    { wideAdd(wideMul(wideFromNat(2 * CoordinateRange), wideFromNat(2 * CoordinateRange)),
              wideMul(wideFromNat(2 * CoordinateRange), wideFromNat(2 * CoordinateRange))),
      wideSub(MaxUint256, <<1>>),
      MaxUint256 }

SqrtInputs == { wideFromNat(n) : n \in 0 .. MaxSqrtInput } \cup SqrtLargeInputs

\* A call sqrt(x) is about to be made: `last` holds the call, at "entry"
\* before its first statement, at "loop" before a test of the while
\* condition, at "done" after its return and at "panic" after a failed
\* arithmetic check.  yBefore is the y of before the last run of the body.
SqrtInit ==
    /\ validatedTrajectories = <<>>
    /\ eventLog = <<>>
    /\ nCalls = 0
    /\ nAccepted = 0
    /\ last \in { [op |-> "sqrt", pc |-> "entry", x |-> x, y |-> <<>>, z |-> <<>>,
                    yBefore |-> <<>>, runs |-> 0] : x \in SqrtInputs }
    /\ pre = [validatedTrajectories |-> <<>>, eventLog |-> <<>>]
    /\ state = [trajectories |-> <<>>, isLoading |-> FALSE, error |-> null,
                isSubmitting |-> FALSE, submitError |-> null]
    /\ contractRef = FALSE
    /\ listener = [on |-> FALSE, from |-> 0, called |-> FALSE]
    /\ loads = <<>>
    /\ submission = [pc |-> "idle", calls |-> 0]
    /\ deliveries = <<>>
    /\ timers = 0
    /\ lastClient = [op |-> "none"]

\* if (x == 0) return 0; uint z = (x + 1) / 2; y = x;
SqrtEnter ==
    /\ last.pc = "entry"
    /\ last' = IF last.x = <<>>
               THEN [last EXCEPT !.pc = "done", !.y = <<>>]
               ELSE IF ~fitsUint256(wideAdd(last.x, <<1>>))
               THEN [last EXCEPT !.pc = "panic"]
               ELSE [last EXCEPT !.pc = "loop", !.y = last.x,
                                 !.z = wideHalf(wideAdd(last.x, <<1>>)), !.yBefore = last.x]
    /\ UNCHANGED <<validatedTrajectories, eventLog, nCalls, nAccepted, pre, clientVars>>

\* while (z < y) holds: one run of { y = z; z = (x / z + z) / 2; }
SqrtIterate ==
    /\ last.pc = "loop"
    /\ wideLess(last.z, last.y)
    /\ \E s \in {sqrtBody([x |-> last.x, y |-> last.y, z |-> last.z, panic |-> FALSE])} :
          last' = IF s.panic
                  THEN [last EXCEPT !.pc = "panic"]
                  ELSE [last EXCEPT !.y = s.y, !.z = s.z, !.yBefore = last.y,
                                    !.runs = last.runs + 1]
    /\ UNCHANGED <<validatedTrajectories, eventLog, nCalls, nAccepted, pre, clientVars>>

\* while (z < y) fails: y is returned
SqrtReturn ==
    /\ last.pc = "loop"
    /\ ~wideLess(last.z, last.y)
    /\ last' = [last EXCEPT !.pc = "done"]
    /\ UNCHANGED <<validatedTrajectories, eventLog, nCalls, nAccepted, pre, clientVars>>

SqrtNext ==
    \/ SqrtEnter
    \/ SqrtIterate
    \/ SqrtReturn

SpecSqrt == SqrtInit /\ [][SqrtNext]_vars

SqrtReturned == last.pc = "done"

SqrtPanicked == last.pc = "panic"

\* y * y <= x < (y + 1) * (y + 1)
IsFloorSqrt(y, x) ==
    /\ ~wideLess(x, wideMul(y, y))
    /\ wideLess(x, wideMul(wideAdd(y, <<1>>), wideAdd(y, <<1>>)))

\* the returned y is the floor of the square root, and it is what the sqrt
\* of the ledger model returns on the small inputs
SqrtResultIsFloor ==
    SqrtReturned =>
        /\ IsFloorSqrt(last.y, last.x)
        /\ \A n \in 0 .. MaxSqrtInput :
              last.x = wideFromNat(n) => last.y = wideFromNat(sqrt(n))

\* every run of the loop body makes y smaller
SqrtDecreases == (last.pc = "loop" /\ last.runs > 0) => wideLess(last.y, last.yBefore)

\* The loop is left after a number of runs bounded by the size of x: at most
\* one run for every binary digit of x.  At "loop" either the test holds and
\* the body runs, or it fails and sqrt() returns, so a call that cannot run
\* the body again has ended.
SqrtRunsBounded == last.runs <= wideBits(last.x)

C22_WitnessThree ==
    /\ SqrtReturned
    /\ last.x = wideFromNat(3)
    /\ last.y = <<1>>
    /\ last.runs = 2

(* ------------------- further claims on the client --------------------- *)

HookReverted == lastClient.op = "transaction" /\ lastClient.status = "revert"

\* C27: whenever the checks of the hook pass, the transaction it sends has
\* floor(endSeconds / TIME_SLOT) > floor(startSeconds / TIME_SLOT), and the
\* call does not fail with "Invalid time window".
C27_HookWindowIsValid ==
    /\ submission.pc = "transaction" =>
          toSlot(submission.endTime) > toSlot(submission.startTime)
    /\ HookReverted => last.error # "Invalid time window"

\* the hook has sent a window of two instants of the same second, the
\* contract has reverted and the hook shows the revert as submitError
C27_SameSecondReverts ==
    /\ HookReverted
    /\ last.startTime = last.endTime
    /\ last.error = "Invalid time window"
    /\ state.submitError = "Invalid time window"
    /\ ~state.isSubmitting

\* C25: a reload that returns when the mirror already equals the ledger, the
\* result of a reload that started later, leaves it so; once every reload has
\* returned the mirror equals the ledger.
C25_NoStaleOverwrite ==
    (Fetched /\ lastClient.shown = Mirror(validatedTrajectories)) =>
        state.trajectories = Mirror(validatedTrajectories)

\* Both trajectories were shown; the reload that had read a count of 1 before
\* the second was stored has returned last, and now one is shown.  No reload
\* is in flight or scheduled and no submission is under way.
C25_StaleMirror ==
    /\ Fetched
    /\ Quiescent
    /\ submission.pc = "idle"
    /\ Len(validatedTrajectories) = 2
    /\ lastClient.shown = Mirror(validatedTrajectories)
    /\ lastClient.count = 1
    /\ state.trajectories = Mirror(SubSeq(validatedTrajectories, 1, 1))
    /\ ~state.isLoading
    /\ state.error = null

\* C26: once the initialization has succeeded and the listener effect of App
\* has run, in whichever order, the observer is subscribed to the events.
C26_SubscribedAfterInit ==
    (contractRef /\ listener.called) => listener.on

\* The effect ran before the initialization succeeded.  Two submissions have
\* been decided since, no event has reached the observer, and no reload was
\* started by one: the mirror is still empty.
C26_NeverSubscribed ==
    /\ contractRef
    /\ listener.called
    /\ ~listener.on
    /\ Len(eventLog) = 2
    /\ Len(validatedTrajectories) = 2
    /\ deliveries = <<>>
    /\ loads = <<>>
    /\ state.trajectories = <<>>
    /\ state.error = null

(* ----------------------- reads that fail in transit -------------------- *)

\* A read of a reload in flight is not answered: the provider throws, and
\* fetchAllTrajectories throws the error on to loadTrajectories.
ReadFails ==
    \E k \in 1 .. Len(loads) :
        /\ loads[k].pc \in {"count", "meta", "coord"}
        /\ Resume(k, [loads[k] EXCEPT !.pc = "failed", !.error = "network error"])

FailingNext ==
    \/ InitializeContract
    \/ SetupEventListener
    \/ Refresh
    \/ FetchCount
    \/ FetchMeta
    \/ FetchCoordinate
    \/ ReadFails
    \/ HookSubmit
    \/ HookTransaction
    \/ HookReload
    \/ OtherSubmitTrajectoryCall
    \/ DeliverEvent
    \/ TimerFires

SpecFailing == Init /\ [][FailingNext]_vars

\* a call of loadTrajectories has just ended in its catch branch
LoadFailed == Loaded /\ lastClient.pc = "failed"

\* C29: when a read of a reload fails, whichever it is, the mirror keeps the
\* contents it had, the error field holds the error, and isLoading is false.
C29_FailedReloadKeepsMirror ==
    LoadFailed =>
        /\ state.trajectories = lastClient.shown
        /\ state.error = lastClient.error
        /\ state.error # null
        /\ ~state.isLoading

\* a reload has failed after it had fetched the first of two trajectories,
\* while the mirror showed both
C29_Witness ==
    /\ LoadFailed
    /\ lastClient.count = 2
    /\ lastClient.fetched = 1
    /\ Len(lastClient.shown) = 2
    /\ state.trajectories = Mirror(validatedTrajectories)

====
